---- MODULE Spec2Model ----
(***************************************************************************)
(* PolicyWithQs (src/policy.py): the parameter group of an actor-critic    *)
(* agent.  Construction from the configuration flags, gradient routing     *)
(* with the delayed-update schedule, the soft target update, the           *)
(* checkpoint save/restore and the squashed-Gaussian action head.          *)
(*                                                                         *)
(* Networks and optimizers are external collaborators.  A network is its   *)
(* list of weight tensors, each tensor one integer.  An optimizer step on  *)
(* the pairs zip(grads, weights) moves each paired weight by its gradient  *)
(* and counts one step; like Keras it raises when handed no pair at all.   *)
(***************************************************************************)
EXTENDS Integers, Sequences, FiniteSets, TLC

VARIABLES
    args,            \* self.args: the configuration
    status,          \* "new" | "constructed" | "failed" (assertion) | "crashed" (exception in a call)
    models,          \* self.models
    target_models,   \* self.target_models
    optimizers,      \* self.optimizers
    w,               \* module name -> its weight tensors
    steps,           \* optimizer name -> optimizer steps taken (Adam's iterations)
    blends,          \* target module name -> number of soft updates it received
    iteration,       \* the caller's iteration counter: apply_gradients calls made so far
    last,            \* the arguments and outcome of the latest apply_gradients call
    valid,           \* every call so far was handed len(grads) = len(trainable_weights)
    store,           \* checkpoint storage: file name -> saved objects
    statusB,         \* the second group (restored into): "none" | "fresh" | "loaded" | "load_error"
    wB,              \* its weights
    stepsB,          \* its optimizers' steps
    loadedIte,       \* the iteration it was loaded from
    act_in,          \* the logits handed to _logits2action and the sample it draws
    act_out          \* what _logits2action returned

vars == <<args, status, models, target_models, optimizers, w, steps, blends, iteration,
          last, valid, store, statusB, wB, stepsB, loadedIte, act_in, act_out>>

groupA == <<args, status, models, target_models, optimizers, w, steps, blends, iteration,
            last, valid>>
groupB == <<statusB, wB, stepsB, loadedIte>>
actVars == <<act_in, act_out>>

----------------------------------------------------------------------------
(* Bounds *)

\* apply_gradients calls explored
MaxIter == 4
\* trainable tensors of one MLPNet (policy, Q1 and Q2 share num_hidden_layers)
NumWeights == 2
\* denominator of the soft-update rate: tau = args.tau / TauDen
TauDen == 2
\* initial parameter values a freshly built network may get: 0..MaxSeed
MaxSeed == 1
Seeds == 0..MaxSeed
\* delay periods: 1..MaxDelay
MaxDelay == 3
Delays == 1..MaxDelay
\* checkpoint files the learner writes
MaxSaves == 2
\* soft-update rates: 0, 1/TauDen and 1
Taus == {0, 1, TauDen}

----------------------------------------------------------------------------
(* Names *)

Nets == {"policy", "policy_target", "Q1", "Q1_target", "Q2", "Q2_target"}
AllModules == Nets \cup {"alpha"}
AllOptimizers == {"policy_adam_opt", "Q1_adam_opt", "Q2_adam_opt", "alpha_adam_opt"}

\* the live network a target network shadows
LiveOf(t) ==
    CASE t = "Q1_target" -> "Q1"
      [] t = "Q2_target" -> "Q2"
      [] t = "policy_target" -> "policy"

ArgSpace ==
    [policy_only : BOOLEAN, double_Q : BOOLEAN, target : BOOLEAN,
     alpha : {"auto", "fixed"}, delay_update : Delays, tau : Taus,
     deterministic_policy : BOOLEAN]

Min(a, b) == IF a < b THEN a ELSE b

\* Python's s[lo:hi] for 0 <= lo (0-based, hi exclusive, clamped to the length)
Slice(s, lo, hi) == SubSeq(s, Min(lo, Len(s)) + 1, Min(hi, Len(s)))

\* Python's s[-1:]
LastSlice(s) == IF Len(s) = 0 THEN <<>> ELSE <<s[Len(s)]>>

RECURSIVE Flatten(_)
Flatten(ss) == IF ss = <<>> THEN <<>> ELSE Head(ss) \o Flatten(Tail(ss))

----------------------------------------------------------------------------
(* Construction: PolicyWithQs.__init__ *)

\* MLPNet(...) / AlphaModel(...): a freshly initialised network
NewNet(n, seed) == [k \in 1..n |-> seed]

\* lines 53-54: "assert self.args.target", reached only when not policy_only and double_Q
AssertTargetSkipped(a) == TRUE
AssertTarget(a) == (~a.policy_only /\ a.double_Q) => a.target

\* lines 48-65 and 71: self.models
ModelListWithCritic(a) ==
    (IF a.double_Q THEN <<"Q1", "Q2", "policy">> ELSE <<"Q1", "policy">>)
        \o (IF a.alpha = "auto" THEN <<"alpha">> ELSE <<>>)
ModelList(a) ==
    (IF a.policy_only THEN <<"policy">>
     ELSE IF a.double_Q THEN <<"Q1", "Q2", "policy">>
     ELSE <<"Q1", "policy">>)
        \o (IF a.alpha = "auto" THEN <<"alpha">> ELSE <<>>)

\* lines 48-65: self.target_models
TargetList(a) ==
    IF a.policy_only THEN <<>>
    ELSE IF a.double_Q THEN <<"Q1_target", "Q2_target", "policy_target">>
    ELSE IF a.target THEN <<"Q1_target", "policy_target">>
    ELSE <<>>

\* lines 48-65 and 72: self.optimizers
OptimizerList(a) ==
    (IF a.policy_only THEN <<"policy_adam_opt">>
     ELSE IF a.double_Q THEN <<"Q1_adam_opt", "Q2_adam_opt", "policy_adam_opt">>
     ELSE <<"Q1_adam_opt", "policy_adam_opt">>)
        \o (IF a.alpha = "auto" THEN <<"alpha_adam_opt">> ELSE <<>>)

\* lines 29-46 and 67-68: the networks after construction.  policy and
\* policy_target are initialised independently (sp, spt); Q1_target and
\* Q2_target are overwritten with Q1's and Q2's weights (lines 38 and 44), so
\* their own initial values are never observable.
InitialWeights(a, sp, spt, sq) ==
    [m \in AllModules |->
        CASE m = "policy" -> NewNet(NumWeights, sp)
          [] m = "policy_target" -> NewNet(NumWeights, spt)
          [] m = "Q1" -> NewNet(NumWeights, sq)
          [] m = "Q1_target" -> NewNet(NumWeights, sq)
          [] m = "Q2" -> NewNet(NumWeights, sq + 2)
          [] m = "Q2_target" -> NewNet(NumWeights, sq + 2)
          [] m = "alpha" -> IF a.alpha = "auto" THEN NewNet(1, 0) ELSE <<>>]

NoCall == [called |-> FALSE, iteration |-> 0, grads |-> <<>>, err |-> FALSE]

Construct ==
    /\ status = "new"
    /\ IF AssertTarget(args)
       THEN \E sp \in Seeds, spt \in Seeds, sq \in Seeds :
              /\ status' = "constructed"
              /\ models' = ModelList(args)
              /\ target_models' = TargetList(args)
              /\ optimizers' = OptimizerList(args)
              /\ w' = InitialWeights(args, sp, spt, sq)
       ELSE /\ status' = "failed"
            /\ UNCHANGED <<models, target_models, optimizers, w>>
    /\ UNCHANGED <<args, steps, blends, iteration, last, valid>>
    /\ UNCHANGED <<store, groupB, actVars>>

----------------------------------------------------------------------------
(* Gradient routing: PolicyWithQs.apply_gradients *)

\* lines 92-95: the trainable_weights property
trainable_weights == Flatten([i \in 1..Len(models) |-> w[models[i]]])

\* lines 116 and 129: iteration % self.args.delay_update == 0
IsDelayedAlways(it, a) == TRUE
IsDelayedOffByOne(it, a) == (it + 1) % a.delay_update = 0
IsDelayedStep(it, a) == it % a.delay_update = 0

\* optimizer.apply_gradients(zip(gs, module.trainable_weights)) on the running
\* state st = [w, steps, blends, err]: zip stops at the shorter sequence; no
\* pair at all raises ValueError; an earlier exception means this is not reached.
ApplyOpt(st, opt, m, gs) ==
    IF st.err THEN st
    ELSE IF Min(Len(gs), Len(st.w[m])) = 0 THEN [st EXCEPT !.err = TRUE]
    ELSE [st EXCEPT
            !.w[m] = [k \in 1..Len(st.w[m]) |->
                        IF k <= Len(gs) THEN st.w[m][k] - gs[k] ELSE st.w[m][k]],
            !.steps[opt] = @ + 1]

\* lines 143, 152, 161: tau * source + (1.0 - tau) * target, tau = a.tau / TauDen
BlendSwapped(a, source, target) == ((TauDen - a.tau) * source + a.tau * target) \div TauDen
Blend(a, source, target) == (a.tau * source + (TauDen - a.tau) * target) \div TauDen

\* lines 138-163: update_Q1_target, update_Q2_target, update_policy_target
UpdateTargetHard(st, a, t) ==
    IF st.err THEN st
    ELSE [st EXCEPT !.w[t] = st.w[LiveOf(t)], !.blends[t] = @ + 1]
UpdateTarget(st, a, t) ==
    IF st.err THEN st
    ELSE [st EXCEPT
            !.w[t] = [k \in 1..Len(st.w[t]) |-> Blend(a, st.w[LiveOf(t)][k], st.w[t][k])],
            !.blends[t] = @ + 1]

update_Q1_target(st, a) == UpdateTarget(st, a, "Q1_target")
update_Q2_target(st, a) == UpdateTarget(st, a, "Q2_target")
update_policy_target(st, a) == UpdateTarget(st, a, "policy_target")

\* lines 121-123 and 131-133
ApplyAlpha(st, a, grads) ==
    IF a.alpha = "auto"
    THEN ApplyOpt(st, "alpha_adam_opt", "alpha", LastSlice(grads))
    ELSE st

\* lines 105-107
ApplyPolicyOnly(st, a, it, grads) == ApplyOpt(st, "policy_adam_opt", "policy", grads)

\* lines 109-123
ApplyDoubleQ(st, a, it, grads) ==
    LET q_weights_len == Len(st.w["Q1"])
        policy_weights_len == Len(st.w["policy"])
        q1_grad == Slice(grads, 0, q_weights_len)
        q2_grad == Slice(grads, q_weights_len, 2 * q_weights_len)
        policy_grad == Slice(grads, 2 * q_weights_len, 2 * q_weights_len + policy_weights_len)
        s1 == ApplyOpt(st, "Q1_adam_opt", "Q1", q1_grad)
        s2 == ApplyOpt(s1, "Q2_adam_opt", "Q2", q2_grad)
    IN  IF IsDelayedStep(it, a)
        THEN LET s3 == ApplyOpt(s2, "policy_adam_opt", "policy", policy_grad)
                 s4 == update_policy_target(s3, a)
                 s5 == update_Q1_target(s4, a)
                 s6 == update_Q2_target(s5, a)
             IN  ApplyAlpha(s6, a, grads)
        ELSE s2

\* lines 124-136
ApplySingleQ(st, a, it, grads) ==
    LET q_weights_len == Len(st.w["Q1"])
        policy_weights_len == Len(st.w["policy"])
        q1_grad == Slice(grads, 0, q_weights_len)
        policy_grad == Slice(grads, q_weights_len, q_weights_len + policy_weights_len)
        s1 == ApplyOpt(st, "Q1_adam_opt", "Q1", q1_grad)
    IN  IF IsDelayedStep(it, a)
        THEN LET s2 == ApplyOpt(s1, "policy_adam_opt", "policy", policy_grad)
                 s3 == ApplyAlpha(s2, a, grads)
             IN  IF a.target
                 THEN update_Q1_target(update_policy_target(s3, a), a)
                 ELSE s3
        ELSE s1

\* lines 104-136: the state the call leaves, an exception included
ApplyResult(st, a, it, grads) ==
    IF a.policy_only THEN ApplyPolicyOnly(st, a, it, grads)
    ELSE IF a.double_Q THEN ApplyDoubleQ(st, a, it, grads)
    ELSE ApplySingleQ(st, a, it, grads)

\* the gradient vector handed in: position k carries the value k
Grads(n) == [k \in 1..n |-> k]

\* lengths the caller may hand in: empty, the first critic's slice only, one
\* short, exact, one long
GradLens ==
    {0, NumWeights, Len(trainable_weights) - 1, Len(trainable_weights),
     Len(trainable_weights) + 1}

apply_gradients(it, grads) ==
    /\ status = "constructed"
    /\ LET r == ApplyResult([w |-> w, steps |-> steps, blends |-> blends, err |-> FALSE],
                            args, it, grads)
       IN  /\ w' = r.w
           /\ steps' = r.steps
           /\ blends' = r.blends
           /\ status' = IF r.err THEN "crashed" ELSE status
           /\ last' = [called |-> TRUE, iteration |-> it, grads |-> grads, err |-> r.err]
    /\ valid' = (valid /\ Len(grads) = Len(trainable_weights))
    /\ iteration' = it + 1
    /\ UNCHANGED <<args, models, target_models, optimizers>>

\* the training loop calls with iteration = 0, 1, 2, ...
TrainStep ==
    /\ iteration < MaxIter
    /\ \E n \in GradLens : apply_gradients(iteration, Grads(n))
    /\ UNCHANGED <<store, groupB, actVars>>

----------------------------------------------------------------------------
(* Specification of construction and training *)

NoWeights == [m \in AllModules |-> <<>>]
NoSteps == [o \in AllOptimizers |-> 0]
NoBlends == [t \in {"Q1_target", "Q2_target", "policy_target"} |-> 0]
NoAct == [called |-> FALSE]

InitRest ==
    /\ status = "new"
    /\ models = <<>>
    /\ target_models = <<>>
    /\ optimizers = <<>>
    /\ w = NoWeights
    /\ steps = NoSteps
    /\ blends = NoBlends
    /\ iteration = 0
    /\ last = NoCall
    /\ valid = TRUE
    /\ store = {}
    /\ statusB = "none"
    /\ wB = NoWeights
    /\ stepsB = NoSteps
    /\ loadedIte = 0
    /\ act_in = NoAct
    /\ act_out = NoAct

Init ==
    /\ args \in {a \in ArgSpace : ~a.deterministic_policy}
    /\ InitRest

Next == Construct \/ TrainStep

Spec == Init /\ [][Next]_vars

----------------------------------------------------------------------------
(* Checkpoints: PolicyWithQs.save_weights / load_weights *)

Range(f) == {f[i] : i \in DOMAIN f}

\* lines 75-78 and 82-85: the objects handed to tf.train.Checkpoint, by name:
\* dict(model_pairs + target_model_pairs + optimizer_pairs)
CheckpointObjectsNoTargets(ms, ts, os) ==
    [modules |-> Range(ms), optimizers |-> Range(os)]
CheckpointObjects(ms, ts, os) ==
    [modules |-> Range(ms) \cup Range(ts), optimizers |-> Range(os)]

\* line 79: ckpt.save(save_dir + '/ckpt_ite' + str(iteration)) writes
\* "ckpt_ite<iteration>-<save_counter>"; the Checkpoint object is new in
\* every save_weights call, so its save counter is 1
SaveName(it) == <<"ckpt_ite", it, 1>>

\* line 86: ckpt.restore(load_dir + '/ckpt_ite' + str(iteration) + '-1')
LoadName(it) == <<"ckpt_ite", it, 1>>

save_weights(it) ==
    /\ status = "constructed"
    /\ LET objs == CheckpointObjects(models, target_models, optimizers)
           file == [name |-> SaveName(it),
                    w |-> [m \in objs.modules |-> w[m]],
                    steps |-> [o \in objs.optimizers |-> steps[o]]]
       IN  store' = {c \in store : c.name # file.name} \cup {file}
    /\ UNCHANGED <<groupA, groupB, actVars>>

\* the learner saves under its current iteration
SaveWeights ==
    /\ Cardinality(store) < MaxSaves
    /\ save_weights(iteration)

\* a second group of the same configuration, freshly constructed with other
\* initial parameters than any the first group was built with
ConstructB ==
    /\ status = "constructed"
    /\ statusB = "none"
    /\ AssertTarget(args)
    /\ wB' = InitialWeights(args, MaxSeed + 10, MaxSeed + 11, MaxSeed + 12)
    /\ statusB' = "fresh"
    /\ stepsB' = NoSteps
    /\ UNCHANGED <<loadedIte, groupA, store, actVars>>

\* restoring a file that does not exist raises; otherwise every object of the
\* group's Checkpoint that the file holds takes the saved value
load_weights(it) ==
    /\ statusB \in {"fresh", "loaded"}
    /\ LET objs == CheckpointObjects(ModelList(args), TargetList(args), OptimizerList(args))
           files == {c \in store : c.name = LoadName(it)}
       IN  IF files = {}
           THEN /\ statusB' = "load_error"
                /\ UNCHANGED <<wB, stepsB, loadedIte>>
           ELSE \E c \in files :
                /\ wB' = [m \in AllModules |->
                            IF m \in objs.modules \cap DOMAIN c.w THEN c.w[m] ELSE wB[m]]
                /\ stepsB' = [o \in AllOptimizers |->
                            IF o \in objs.optimizers \cap DOMAIN c.steps
                            THEN c.steps[o] ELSE stepsB[o]]
                /\ statusB' = "loaded"
                /\ loadedIte' = it
    /\ UNCHANGED <<groupA, store, actVars>>

LoadWeights == \E it \in 0..MaxIter : load_weights(it)

\* lines 165-204: the module each evaluation entry point runs
EntryPoints ==
    {"compute_action", "compute_target_action", "compute_Q1", "compute_Q2",
     "compute_Q1_target", "compute_Q2_target"}

ReadBy(e) ==
    CASE e = "compute_action" -> "policy"
      [] e = "compute_target_action" -> "policy_target"
      [] e = "compute_Q1" -> "Q1"
      [] e = "compute_Q2" -> "Q2"
      [] e = "compute_Q1_target" -> "Q1_target"
      [] e = "compute_Q2_target" -> "Q2_target"

\* the output of an entry point on a fixed input batch: the network is an
\* opaque function of its parameters, so the output stands for them
Output(e, ww) == <<e, ww[ReadBy(e)]>>

\* training with full gradient vectors
TrainValid ==
    /\ iteration < MaxIter
    /\ apply_gradients(iteration, Grads(Len(trainable_weights)))
    /\ UNCHANGED <<store, groupB, actVars>>

\* the soft-update rate and the delay period play no part in a checkpoint
InitCkpt ==
    /\ args \in {a \in ArgSpace :
                   ~a.deterministic_policy /\ a.tau = 1 /\ a.delay_update = 2}
    /\ InitRest

NextCkpt == Construct \/ TrainValid \/ SaveWeights \/ ConstructB \/ LoadWeights

SpecCkpt == InitCkpt /\ [][NextCkpt]_vars

----------------------------------------------------------------------------
(* The action head: PolicyWithQs._logits2action *)

\* raw pre-squash samples explored: -MaxRaw..MaxRaw
MaxRaw == 10
\* action dimensions
ActDim == 2
\* means the policy network may put out
Means == {0, 1}

\* float32 arithmetic near 1: values are multiples of 2^-24
Unit == 2^24

Abs(x) == IF x < 0 THEN -x ELSE x

\* line 182: tf.tanh on float32, in multiples of 2^-24; it is exactly 1.0 from 10 on
Tanh(x) ==
    LET t == CASE Abs(x) = 0 -> 0
               [] Abs(x) = 1 -> 12777430
               [] Abs(x) = 2 -> 16173699
               [] Abs(x) = 3 -> 16694249
               [] Abs(x) = 4 -> 16765964
               [] Abs(x) = 5 -> 16775693
               [] Abs(x) = 6 -> 16777010
               [] Abs(x) = 7 -> 16777188
               [] Abs(x) = 8 -> 16777212
               [] Abs(x) = 9 -> 16777215
               [] OTHER -> Unit
    IN  IF x < 0 THEN -t ELSE t

\* line 183: tf.square of a float32 tanh value, rounded to the nearest multiple
\* of 2^-24 (tabulated: the exact product exceeds TLC's 32-bit integers)
Square(t) ==
    CASE Abs(t) = 0 -> 0
      [] Abs(t) = 12777430 -> 9731216
      [] Abs(t) = 16173699 -> 15591892
      [] Abs(t) = 16694249 -> 16611692
      [] Abs(t) = 16765964 -> 16754720
      [] Abs(t) = 16775693 -> 16774170
      [] Abs(t) = 16777010 -> 16776804
      [] Abs(t) = 16777188 -> 16777160
      [] Abs(t) = 16777212 -> 16777208
      [] Abs(t) = 16777215 -> 16777214
      [] OTHER -> Unit

\* Floating-point results are tracked by kind: "finite", "+inf", "-inf", "nan".
\* line 183: tf.math.log
Log(x) == IF x = 0 THEN "-inf" ELSE IF x < 0 THEN "nan" ELSE "finite"

Sub(a, b) ==
    CASE a = "nan" \/ b = "nan" -> "nan"
      [] a = "finite" /\ b = "finite" -> "finite"
      [] b = "-inf" /\ a \in {"finite", "+inf"} -> "+inf"
      [] b = "+inf" /\ a \in {"finite", "-inf"} -> "-inf"
      [] b = "finite" -> a
      [] OTHER -> "nan"

Add(a, b) ==
    CASE a = "nan" \/ b = "nan" -> "nan"
      [] a = "finite" -> b
      [] b = "finite" -> a
      [] a = b -> a
      [] OTHER -> "nan"

RECURSIVE ReduceSum(_)
ReduceSum(xs) == IF xs = <<>> THEN "finite" ELSE Add(Head(xs), ReduceSum(Tail(xs)))

\* line 176: tf.split(logits, 2, axis=-1)
Split(logits) ==
    [mean |-> SubSeq(logits, 1, Len(logits) \div 2),
     log_std |-> SubSeq(logits, Len(logits) \div 2 + 1, Len(logits))]

\* line 183: the argument the code hands to the logarithm
LogArg(action) == Unit - Square(action)

\* lines 175-184; sample is what act_dist.sample() drew, and act_dist.log_prob
\* of a finite sample under a positive standard deviation is finite; the 1e-6
\* is added to the difference, after the logarithm
logits2action(a, logits, sample) ==
    LET mean == Split(logits).mean
        raw == IF a.deterministic_policy THEN mean ELSE sample
    IN  IF a.deterministic_policy
        THEN [called |-> TRUE, action |-> raw, log_arg |-> <<>>, logp |-> "zero"]
        ELSE LET action == [d \in 1..Len(raw) |-> Tanh(raw[d])]
                 terms == [d \in 1..Len(raw) |->
                             Add(Sub("finite", Log(LogArg(action[d]))), "finite")]
             IN  [called |-> TRUE, action |-> action,
                  log_arg |-> [d \in 1..Len(raw) |-> LogArg(action[d])],
                  logp |-> ReduceSum(terms)]

RECURSIVE SeqsOf(_, _)
SeqsOf(S, n) ==
    IF n = 0 THEN {<<>>} ELSE {Append(q, x) : q \in SeqsOf(S, n - 1), x \in S}

\* compute_action / compute_target_action hand the network's output (act_in.logits)
\* to _logits2action; act_in.sample is the draw act_dist.sample() makes
ComputeAction ==
    /\ act_in.called
    /\ ~act_out.called
    /\ act_out' = logits2action(args, act_in.logits, act_in.sample)
    /\ UNCHANGED <<act_in, groupA, groupB, store>>

ActInputs ==
    {[called |-> TRUE, logits |-> mean \o [d \in 1..ActDim |-> 0], sample |-> sample] :
        mean \in SeqsOf(Means, ActDim), sample \in SeqsOf((-MaxRaw)..MaxRaw, ActDim)}

InitAct ==
    /\ args \in {a \in ArgSpace :
                   /\ ~a.policy_only /\ a.double_Q /\ a.target /\ a.alpha = "auto"
                   /\ a.tau = 1 /\ a.delay_update = 2}
    /\ status = "new"
    /\ models = <<>>
    /\ target_models = <<>>
    /\ optimizers = <<>>
    /\ w = NoWeights
    /\ steps = NoSteps
    /\ blends = NoBlends
    /\ iteration = 0
    /\ last = NoCall
    /\ valid = TRUE
    /\ store = {}
    /\ statusB = "none"
    /\ wB = NoWeights
    /\ stepsB = NoSteps
    /\ loadedIte = 0
    /\ act_in \in ActInputs
    /\ act_out = NoAct

NextAct == ComputeAction

SpecAct == InitAct /\ [][NextAct]_vars

----------------------------------------------------------------------------
(* Properties of construction and training, checked under Spec *)

Constructed == status \in {"constructed", "crashed"}
Called == iteration' = iteration + 1
DelayedCount(n, d) == Cardinality({i \in 0..(n - 1) : i % d = 0})
TargetNames == {"Q1_target", "Q2_target", "policy_target"}

\* C1 (as stated): double_Q=true with target=false never yields a constructed
\* group, whatever the other flags are, policy_only=true included.
C1_Original ==
    (args.double_Q /\ ~args.target) => ~Constructed

\* C1 (amended): with policy_only=false, double_Q=true and target=false never
\* yield a constructed group: construction fails and builds no module list.
C1_AssertFails ==
    (~args.policy_only /\ args.double_Q /\ ~args.target) =>
        /\ status \in {"new", "failed"}
        /\ models = <<>> /\ target_models = <<>> /\ optimizers = <<>>
        /\ w = NoWeights

C1_Witness ==
    status = "failed" /\ ~args.policy_only /\ args.double_Q /\ ~args.target

\* C2: with policy_only=false, after calls for iterations 0..n-1 with full
\* gradient vectors each critic optimizer present took n steps, and the
\* policy optimizer, the alpha optimizer (alpha='auto') and each target blend
\* (target enabled) happened once per i in 0..n-1 with i mod delay = 0.
C2_Schedule ==
    (status = "constructed" /\ ~args.policy_only /\ valid) =>
        LET n == iteration
            dc == DelayedCount(iteration, args.delay_update)
        IN  /\ steps["Q1_adam_opt"] = n
            /\ steps["Q2_adam_opt"] = (IF args.double_Q THEN n ELSE 0)
            /\ steps["policy_adam_opt"] = dc
            /\ steps["alpha_adam_opt"] = (IF args.alpha = "auto" THEN dc ELSE 0)
            /\ args.target =>
                  /\ blends["policy_target"] = dc
                  /\ blends["Q1_target"] = dc
                  /\ args.double_Q => blends["Q2_target"] = dc

C2_Witness ==
    /\ status = "constructed" /\ valid /\ iteration = 4
    /\ ~args.policy_only /\ args.double_Q /\ args.target /\ args.alpha = "auto"
    /\ args.delay_update = 2
    /\ steps["Q1_adam_opt"] = 4 /\ steps["Q2_adam_opt"] = 4
    /\ steps["policy_adam_opt"] = 2 /\ steps["alpha_adam_opt"] = 2
    /\ blends["Q2_target"] = 2

\* C3: with policy_only=false, a call with iteration mod delay # 0 leaves
\* every target module, the policy, its optimizer's step counter, the alpha
\* module and its optimizer unchanged; only the critics advance.
C3_Frame ==
    [][(Called /\ ~args.policy_only /\ iteration % args.delay_update # 0) =>
          /\ \A t \in TargetNames : w'[t] = w[t]
          /\ blends' = blends
          /\ w'["policy"] = w["policy"]
          /\ steps'["policy_adam_opt"] = steps["policy_adam_opt"]
          /\ w'["alpha"] = w["alpha"]
          /\ steps'["alpha_adam_opt"] = steps["alpha_adam_opt"]
          /\ ~last'.err =>
                /\ steps'["Q1_adam_opt"] = steps["Q1_adam_opt"] + 1
                /\ w'["Q1"] # w["Q1"]
                /\ args.double_Q =>
                      /\ steps'["Q2_adam_opt"] = steps["Q2_adam_opt"] + 1
                      /\ w'["Q2"] # w["Q2"]]_vars

C3_Witness ==
    /\ status = "constructed" /\ last.called /\ ~last.err
    /\ ~args.policy_only /\ args.target /\ args.alpha = "auto"
    /\ last.iteration % args.delay_update # 0
    /\ steps["Q1_adam_opt"] > steps["policy_adam_opt"]

\* C4 (as stated): a call whose grads differ in length from trainable_weights
\* ends in a fatal error with no optimizer step and no target update applied.
C4_Original ==
    [][(Called /\ Len(last'.grads) # Len(trainable_weights)) =>
          /\ last'.err
          /\ w' = w /\ steps' = steps /\ blends' = blends]_vars

\* C5 (as stated): at the end of construction every target module of the
\* group equals its live counterpart.
C5_Original ==
    (status = "constructed" /\ iteration = 0) =>
        \A i \in 1..Len(target_models) :
            w[target_models[i]] = w[LiveOf(target_models[i])]

\* C6 (as stated): with policy_only=true the trainable-module list is exactly
\* [policy], the optimizer list exactly [policy_optimizer], no targets.
C6_Original ==
    (Constructed /\ args.policy_only) =>
        /\ models = <<"policy">>
        /\ optimizers = <<"policy_adam_opt">>
        /\ target_models = <<>>

\* C6 (amended): with policy_only=true there are no critics and no targets:
\* the lists are [policy] and [policy_optimizer] when alpha is fixed, and
\* [policy, alpha] and [policy_optimizer, alpha_optimizer] when alpha='auto'.
C6_PolicyOnlyLists ==
    (Constructed /\ args.policy_only) =>
        /\ target_models = <<>>
        /\ args.alpha # "auto" =>
              models = <<"policy">> /\ optimizers = <<"policy_adam_opt">>
        /\ args.alpha = "auto" =>
              /\ models = <<"policy", "alpha">>
              /\ optimizers = <<"policy_adam_opt", "alpha_adam_opt">>

C6_Witness ==
    /\ Constructed /\ args.policy_only /\ args.alpha = "auto"
    /\ args.double_Q /\ ~args.target
    /\ Len(models) = 2

\* C7 (as stated): for every configuration, a delayed-step call whose grads
\* match trainable_weights in length applies gradient k to trainable weight k,
\* for every position k.
C7_Original ==
    [][(Called /\ Len(last'.grads) = Len(trainable_weights)
          /\ iteration % args.delay_update = 0) =>
          trainable_weights' =
              [k \in 1..Len(trainable_weights) |-> trainable_weights[k] - last'.grads[k]]]_vars

\* C10: on a delayed step with targets, each target module of the group ends
\* as tau * (live parameters after this call's optimizer step) + (1 - tau) *
\* (its parameters before the call); with tau = 1 it equals the live module,
\* and with tau = 0 no call ever changes a target parameter.
C10_Blend ==
    [][(status = "constructed" /\ Called) =>
          /\ (~last'.err /\ iteration % args.delay_update = 0) =>
                \A i \in 1..Len(target_models) :
                    LET t == target_models[i] IN
                    /\ Len(w'[t]) = Len(w[t])
                    /\ \A k \in 1..Len(w[t]) :
                          w'[t][k] = (args.tau * w'[LiveOf(t)][k]
                                        + (TauDen - args.tau) * w[t][k]) \div TauDen
                    /\ args.tau = TauDen => w'[t] = w'[LiveOf(t)]
          /\ args.tau = 0 => \A t \in TargetNames : w'[t] = w[t]]_vars

C10_Witness ==
    /\ status = "constructed" /\ last.called /\ ~last.err
    /\ last.iteration % args.delay_update = 0 /\ last.iteration > 0
    /\ args.tau = 1
    /\ target_models = <<"Q1_target", "Q2_target", "policy_target">>
    /\ blends["Q2_target"] >= 2
    /\ w["Q2_target"] # w["Q2"]

----------------------------------------------------------------------------
(* Properties of checkpoints, checked under SpecCkpt *)

GroupModules == Range(models) \cup Range(target_models)

RoundTripDone ==
    status = "constructed" /\ statusB = "loaded" /\ loadedIte = iteration

\* C8 (as stated): for every configuration, after save on A and load on a
\* fresh B, every evaluation entry point of B returns A's output and every
\* optimizer's state is A's.
C8_Original ==
    RoundTripDone =>
        /\ \A e \in EntryPoints : Output(e, wB) = Output(e, w)
        /\ \A i \in 1..Len(optimizers) : stepsB[optimizers[i]] = steps[optimizers[i]]

\* C8 (amended): after save on A and load on a fresh B, every entry point
\* whose module is in the group's trainable or target list returns A's output,
\* and every optimizer of the group's list has A's state; with
\* policy_only=false and double_Q=true that is all six entry points.
C8_RoundTrip ==
    RoundTripDone =>
        /\ \A e \in EntryPoints :
              ReadBy(e) \in GroupModules => Output(e, wB) = Output(e, w)
        /\ wB["alpha"] = w["alpha"]
        /\ \A i \in 1..Len(optimizers) : stepsB[optimizers[i]] = steps[optimizers[i]]
        /\ (~args.policy_only /\ args.double_Q) =>
              \A e \in EntryPoints : Output(e, wB) = Output(e, w)

C8_Witness ==
    /\ RoundTripDone /\ iteration >= 2
    /\ ~args.policy_only /\ args.double_Q /\ args.alpha = "auto"
    /\ \A e \in EntryPoints : Output(e, wB) = Output(e, w)
    /\ stepsB["policy_adam_opt"] = 1 /\ stepsB["Q2_adam_opt"] = iteration

----------------------------------------------------------------------------
(* Properties of the action head, checked under SpecAct *)

\* C9 (as stated): in stochastic mode the argument of the logarithm,
\* 1 - tanh(a_raw)^2 + eps, is strictly positive in every dimension and the
\* log-probability is finite, also when tanh(a_raw) is exactly +1 or -1.
C9_Original ==
    (act_out.called /\ ~args.deterministic_policy) =>
        /\ \A d \in 1..Len(act_out.log_arg) : act_out.log_arg[d] > 0
        /\ act_out.logp = "finite"

====
